---------------------------- MODULE Spec2Model ----------------------------
(***************************************************************************)
(* A model of telegram_match_poster.py: the daily scheduler loop, the      *)
(* pipeline main() it runs (date filter, result summarizer, random         *)
(* selection, formatter, publisher) and the wall clock the pipeline reads. *)
(*                                                                         *)
(* Two specifications are defined.  Spec is the program as it runs: the    *)
(* loop of lines 310-318 around main() with its inline dataset.  SpecFn    *)
(* applies the module's functions, one call per behaviour, to arguments    *)
(* drawn from bounded sets.                                                *)
(***************************************************************************)
EXTENDS Integers, Sequences, FiniteSets, TLC

VARIABLES
    pc,               \* position of the process in the loop / in main()
    clock,            \* wall clock, seconds since 2025-05-13 00:00:00 local time
    sleepFor,         \* argument of the time.sleep() call in progress or last made
    lastOutcome,      \* how the last finished main() ended: "returned" / "raised"
    runs,             \* number of main() invocations started
    sleeps,           \* number of time.sleep() calls of the loop begun
    ticks,            \* clock ticks observed during the current run
    faults,           \* exceptions that escaped main() so far
    yesterday,        \* main(): local `yesterday` (line 284)
    congrats_message, \* main(): local `congrats_message` (line 286)
    today,            \* main(): the date string passed to the filter at line 289
    todays_matches,   \* main(): local `todays_matches` (line 289)
    selected_matches, \* main(): local `selected_matches` (line 298)
    message,          \* main(): local `message` (line 306)
    sendAttempts,     \* requests.post calls made in the current run
    sendLog,          \* what send_message logged in the current run
    response,         \* the HTTP outcome send_message met in the current run
    call,             \* SpecFn: the function applied and its arguments
    ret               \* SpecFn: its result

vars == << pc, clock, sleepFor, lastOutcome, runs, sleeps, ticks, faults,
           yesterday, congrats_message, today, todays_matches,
           selected_matches, message, sendAttempts, sendLog, response,
           call, ret >>

-----------------------------------------------------------------------------
(* Bounds of the model *)

\* Days of wall-clock time explored (the clock never passes MaxDays * 86400).
MaxDays == 5

\* The process may start on any of the first StartDays days after the epoch day.
StartDays == 2

\* Clock ticks (of TickSeconds each) that may fall between statements of one run.
MaxTicks == 1

\* Length of one clock tick, in seconds.
TickSeconds == 1

\* Exceptions that may escape main() in one behaviour.
MaxFaults == 2

\* SpecFn: longest list handed to check_yesterday_results.
MaxMatches == 6

\* SpecFn: longest server_response handed to filter_matches_by_date.
MaxRecs == 3

\* SpecFn: longest list of today's matches handed to the selection/composition.
MaxToday == 5

-----------------------------------------------------------------------------
(* Configuration (lines 15-20) *)

INTERVAL == 86400

RetryDelay_same_as_interval == INTERVAL

\* The argument of time.sleep in the except clause (line 318).
RetryDelay == 60

\* The argument of time.sleep after main() returns (line 315).
NormalDelay == INTERVAL

MORE_MATCHES_LINK == "https://yourwebsite.com/matches"

SecondsPerDay == 86400

MaxClock == MaxDays * SecondsPerDay

-----------------------------------------------------------------------------
(* Dates: datetime.now(), timedelta(days=1) and strftime("%Y-%m-%d") *)

\* The calendar days of the modelled window; entry i+1 is day i after the epoch.
Calendar ==
    << "2025-05-13", "2025-05-14", "2025-05-15", "2025-05-16", "2025-05-17",
       "2025-05-18", "2025-05-19", "2025-05-20", "2025-05-21", "2025-05-22",
       "2025-05-23", "2025-05-24" >>

\* strftime("%Y-%m-%d") of the naive local datetime t seconds after the epoch.
strftime(t) == Calendar[(t \div SecondsPerDay) + 1]

\* datetime - timedelta(days=1)
minus_one_day(t) == t - SecondsPerDay

\* The calendar day before the one written s (used by the properties only).
DayBefore(s) ==
    LET i == CHOOSE k \in 1..Len(Calendar) : Calendar[k] = s
    IN  IF i > 1 THEN Calendar[i - 1] ELSE "before-window"

-----------------------------------------------------------------------------
(* Strings: str.lower() and str.capitalize() on the outcome values *)

lower(s) ==
    CASE s \in {"win", "Win", "WIN", "wIn"} -> "win"
      [] s \in {"lose", "Lose", "LOSE"}     -> "lose"
      [] OTHER                              -> s

capitalize(s) ==
    CASE s \in {"win", "Win", "WIN", "wIn"} -> "Win"
      [] s \in {"lose", "Lose", "LOSE"}     -> "Lose"
      [] OTHER                              -> s

-----------------------------------------------------------------------------
(* The inline dataset of main() (lines 125-281) *)

JsonServerResponse ==
  <<
    [ m_time |-> "17:30",
      pick |-> "1",
      country |-> "Iran",
      league |-> "Iran - Persian Gulf Pro League",
      m_date |-> "2025-05-15",
      home_team |-> "Persepolis FC",
      away_team |-> "Havadar",
      bet_odds |-> "",
      outcome |-> "win",
      result |-> "2 - 0",
      h_logo_path |-> "https://media.api-sports.io/football/teams/2742.png",
      a_logo_path |-> "https://media.api-sports.io/football/teams/15541.png",
      league_logo |-> "https://media.api-sports.io/football/leagues/290.png",
      fixture_id |-> "1371668",
      m_status |-> "FT" ],
    [ m_time |-> "21:00",
      pick |-> "2",
      country |-> "Saudi-Arabia",
      league |-> "Saudi-Arabia - Pro League",
      m_date |-> "2025-05-15",
      home_team |-> "Al-Raed",
      away_team |-> "Al-Ittihad FC",
      bet_odds |-> "",
      outcome |-> "win",
      result |-> "1 - 3",
      h_logo_path |-> "https://media.api-sports.io/football/teams/2935.png",
      a_logo_path |-> "https://media.api-sports.io/football/teams/2938.png",
      league_logo |-> "https://media.api-sports.io/football/leagues/307.png",
      fixture_id |-> "1252700",
      m_status |-> "FT" ],
    [ m_time |-> "14:45",
      pick |-> "Over 2.5",
      country |-> "Singapore",
      league |-> "Singapore - Premier League",
      m_date |-> "2025-05-15",
      home_team |-> "Young Lions",
      away_team |-> "Geylang International",
      bet_odds |-> "",
      outcome |-> "win",
      result |-> "1 - 2",
      h_logo_path |-> "https://media.api-sports.io/football/teams/4208.png",
      a_logo_path |-> "https://media.api-sports.io/football/teams/4203.png",
      league_logo |-> "https://media.api-sports.io/football/leagues/368.png",
      fixture_id |-> "1196675",
      m_status |-> "FT" ],
    [ m_time |-> "16:00",
      pick |-> "1",
      country |-> "Kenya",
      league |-> "Kenya - FKF Premier League",
      m_date |-> "2025-05-15",
      home_team |-> "GOR Mahia",
      away_team |-> "Nairobi City Stars",
      bet_odds |-> "",
      outcome |-> "lose",
      result |-> "1 - 2",
      h_logo_path |-> "https://media.api-sports.io/football/teams/2467.png",
      a_logo_path |-> "https://media.api-sports.io/football/teams/2482.png",
      league_logo |-> "https://media.api-sports.io/football/leagues/276.png",
      fixture_id |-> "1303840",
      m_status |-> "FT" ],
    [ m_time |-> "21:00",
      pick |-> "Over 1.5",
      country |-> "Poland",
      league |-> "Poland - II Liga - East",
      m_date |-> "2025-05-16",
      home_team |-> "Zaglebie Sosnowiec",
      away_team |-> "Wisla Pulawy",
      bet_odds |-> "",
      outcome |-> "",
      result |-> "-",
      h_logo_path |-> "https://media.api-sports.io/football/teams/342.png",
      a_logo_path |-> "https://media.api-sports.io/football/teams/16272.png",
      league_logo |-> "https://media.api-sports.io/football/leagues/109.png",
      fixture_id |-> "1211823",
      m_status |-> "NS" ],
    [ m_time |-> "21:30",
      pick |-> "1",
      country |-> "England",
      league |-> "England - Premier League",
      m_date |-> "2025-05-16",
      home_team |-> "Aston Villa",
      away_team |-> "Tottenham",
      bet_odds |-> "",
      outcome |-> "",
      result |-> "-",
      h_logo_path |-> "https://media.api-sports.io/football/teams/66.png",
      a_logo_path |-> "https://media.api-sports.io/football/teams/47.png",
      league_logo |-> "https://media.api-sports.io/football/leagues/39.png",
      fixture_id |-> "1208384",
      m_status |-> "NS" ],
    [ m_time |-> "19:00",
      pick |-> "1",
      country |-> "Norway",
      league |-> "Norway - Eliteserien",
      m_date |-> "2025-05-16",
      home_team |-> "Rosenborg",
      away_team |-> "Haugesund",
      bet_odds |-> "",
      outcome |-> "",
      result |-> "-",
      h_logo_path |-> "https://media.api-sports.io/football/teams/331.png",
      a_logo_path |-> "https://media.api-sports.io/football/teams/328.png",
      league_logo |-> "https://media.api-sports.io/football/leagues/103.png",
      fixture_id |-> "1342237",
      m_status |-> "NS" ],
    [ m_time |-> "21:30",
      pick |-> "2",
      country |-> "Austria",
      league |-> "Australia - 2. Liga",
      m_date |-> "2025-05-16",
      home_team |-> "Schwarz-WeiSs Bregenz",
      away_team |-> "Ried",
      bet_odds |-> "",
      outcome |-> "",
      result |-> "-",
      h_logo_path |-> "https://media.api-sports.io/football/teams/8259.png",
      a_logo_path |-> "https://media.api-sports.io/football/teams/1028.png",
      league_logo |-> "https://media.api-sports.io/football/leagues/219.png",
      fixture_id |-> "1219918",
      m_status |-> "NS" ],
    [ m_time |-> "22:15",
      pick |-> "1",
      country |-> "England",
      league |-> "England - Premier League",
      m_date |-> "2025-05-16",
      home_team |-> "Chelsea",
      away_team |-> "Manchester United",
      bet_odds |-> "",
      outcome |-> "",
      result |-> "-",
      h_logo_path |-> "https://media.api-sports.io/football/teams/49.png",
      a_logo_path |-> "https://media.api-sports.io/football/teams/33.png",
      league_logo |-> "https://media.api-sports.io/football/leagues/39.png",
      fixture_id |-> "1208387",
      m_status |-> "NS" ]
  >>

\* A Python value handed to filter_matches_by_date as `data`: None, or a dict
\* with the given keys whose "server_response" entry (when present) is the list.
PyNone == [isNone |-> TRUE, keys |-> {}, server_response |-> << >>]

PyDict(keys, records) ==
    [isNone |-> FALSE, keys |-> keys, server_response |-> records]

json_data == PyDict({"server_response"}, JsonServerResponse)

-----------------------------------------------------------------------------
(* Results of a call: the value returned, or the exception raised *)

Returned(v) == [raised |-> "none", value |-> v]

Raised(e) == [raised |-> e, value |-> << >>]

SeqsUpTo(S, n) == UNION { [1..k -> S] : k \in 0..n }

Min(a, b) == IF a <= b THEN a ELSE b

-----------------------------------------------------------------------------
(* filter_matches_by_date (lines 39-49) *)

RECURSIVE MatchesOn(_, _)
MatchesOn(records, target_date) ==
    IF records = << >> THEN << >>
    ELSE LET rest == MatchesOn(Tail(records), target_date)
         IN  IF Head(records).m_date = target_date
             THEN << Head(records) >> \o rest
             ELSE rest

filter_matches_by_date(data, target_date) ==
    IF data.isNone \/ data.keys = {} \/ "server_response" \notin data.keys
    THEN Returned(<< >>)
    ELSE IF \E i \in 1..Len(data.server_response) :
                "m_date" \notin DOMAIN data.server_response[i]
         THEN Raised("KeyError")
         ELSE Returned(MatchesOn(data.server_response, target_date))

-----------------------------------------------------------------------------
(* check_yesterday_results (lines 51-70) *)

NoAnnotation == [kind |-> "None", won |-> 0, total |-> 0, pct |-> 0]

PerfectDay == [kind |-> "Perfect Day", won |-> 0, total |-> 0, pct |-> 0]

\* The "Amazing Day" text carries won/total and the percentage to two decimals;
\* pct is that percentage in hundredths.
AmazingDay(won, total, pct) ==
    [kind |-> "Amazing Day", won |-> won, total |-> total, pct |-> pct]

won_count(matches) ==
    Cardinality({ i \in 1..Len(matches) : lower(matches[i].outcome) = "win" })

\* f"{win_percentage:.2f}" as hundredths: (won / total) * 100 rounded half-even.
pct_two_decimals(won, total) ==
    LET n == won * 10000
        q == n \div total
        r == n % total
    IN  IF 2 * r > total \/ (2 * r = total /\ q % 2 = 1) THEN q + 1 ELSE q

threshold_75_inclusive(won, total) == won * 100 >= 75 * total

\* win_percentage > 80, with win_percentage = (won / total) * 100 (line 68).
\* The double-precision product compares with 80 as the exact ratio does for
\* every total up to 40.
above_threshold(won, total) == won * 100 > 80 * total

completed_only(matches) == SelectSeq(matches, LAMBDA m : m.outcome /= "")

\* The records the summary is computed over (line 60: all of `matches`).
judged(matches) == matches

check_yesterday_results(matches) ==
    IF matches = << >> THEN Returned(NoAnnotation)
    ELSE IF \E i \in 1..Len(matches) : "outcome" \notin DOMAIN matches[i]
    THEN Raised("KeyError")
    ELSE LET total_matches == Len(judged(matches))
             won_matches   == won_count(judged(matches))
         IN  IF won_matches = total_matches THEN Returned(PerfectDay)
             ELSE IF total_matches > 0
                     /\ above_threshold(won_matches, total_matches)
                  THEN Returned(AmazingDay(won_matches, total_matches,
                           pct_two_decimals(won_matches, total_matches)))
                  ELSE Returned(NoAnnotation)

-----------------------------------------------------------------------------
(* format_match (lines 72-97): the values shown in one formatted block *)

format_match(match) ==
    [ league      |-> match.league,
      country     |-> match.country,
      m_time      |-> match.m_time,
      home_team   |-> match.home_team,
      away_team   |-> match.away_team,
      pick        |-> match.pick,
      result      |-> IF match.result /= "-" THEN match.result ELSE "Not Played",
      outcome     |-> IF match.outcome /= "" THEN capitalize(match.outcome)
                                             ELSE "Pending",
      h_logo      |-> match.h_logo_path,
      a_logo      |-> match.a_logo_path,
      league_logo |-> match.league_logo ]

-----------------------------------------------------------------------------
(* random.sample(todays_matches, min(3, len(todays_matches))) (line 298) *)

sample_size_uncapped(n) == n

\* min(3, len(todays_matches))
sample_size(n) == Min(3, n)

\* The position lists random.sample may draw: k distinct positions, any order.
SamplePositions(n, k) ==
    { p \in [1..k -> 1..n] : \A i, j \in 1..k : i /= j => p[i] /= p[j] }

\* Every list random.sample may return for the population.
sample(population) ==
    LET n == Len(population)
        k == sample_size(n)
    IN  { [i \in 1..k |-> population[p[i]]] : p \in SamplePositions(n, k) }

-----------------------------------------------------------------------------
(* Composition of the message (lines 291-306) *)

\* "".join(message_parts): the congratulations prefix when there is one
\* (kind "None" when absent), then the body.
Message(congrats, kind, date, blocks) ==
    [ congrats |-> congrats, kind |-> kind, date |-> date, blocks |-> blocks,
      link |-> IF kind = "top_matches" THEN MORE_MATCHES_LINK ELSE "" ]

NoMessage == Message(NoAnnotation, "unset", "", << >>)

\* The pairs <<selected_matches, message>> lines 291-306 may produce; `date`
\* is the value of datetime.now().strftime('%Y-%m-%d') read while composing.
compose(congrats, matches, date) ==
    IF matches = << >>
    THEN { << << >>, Message(congrats, "no_matches", date, << >>) >> }
    ELSE { << sel, Message(congrats, "top_matches", date,
                           [i \in 1..Len(sel) |-> format_match(sel[i])]) >>
           : sel \in sample(matches) }

-----------------------------------------------------------------------------
(* send_message (lines 99-117) *)

\* What requests.post meets: an exception, or a response with a status code and
\* a body whose "ok" field is true or false.
HttpOutcomes ==
    { [exception |-> TRUE, status |-> 0, ok |-> FALSE] }
    \cup { [exception |-> FALSE, status |-> s, ok |-> b]
           : s \in {200, 400}, b \in BOOLEAN }

send_message_without_except(text, http) ==
    IF http.exception
    THEN [raised |-> "RequestException", posts |-> 1, log |-> "none"]
    ELSE IF http.status = 200
         THEN [raised |-> "none", posts |-> 1, log |-> "Message posted successfully"]
         ELSE [raised |-> "none", posts |-> 1, log |-> "Failed to post message"]

\* posts: requests.post calls made; log: the line logged; the function returns
\* None on every path, so `raised` is all its caller can observe.
send_message(text, http) ==
    IF http.exception
    THEN [raised |-> "none", posts |-> 1, log |-> "Error sending message"]
    ELSE IF http.status = 200
         THEN [raised |-> "none", posts |-> 1, log |-> "Message posted successfully"]
         ELSE [raised |-> "none", posts |-> 1, log |-> "Failed to post message"]

-----------------------------------------------------------------------------
(* fetch_data (lines 22-37) *)

\* What requests.get meets: an exception, or a response with a status code and
\* a body that parses to `data` or does not parse.
FetchOutcomes ==
    { [exception |-> TRUE, status |-> 0, parses |-> FALSE, data |-> PyNone] }
    \cup { [exception |-> FALSE, status |-> s, parses |-> b, data |-> json_data]
           : s \in {200, 404, 500}, b \in BOOLEAN }

\* value: the value returned; sent: the messages handed to send_message.
fetch_data(http) ==
    IF http.exception
    THEN [raised |-> "none", value |-> PyNone, sent |-> << >>,
          log |-> "Error fetching data"]
    ELSE IF http.status = 200
         THEN IF http.parses
              THEN [raised |-> "none", value |-> http.data, sent |-> << >>,
                    log |-> "Successfully fetched data from API"]
              ELSE [raised |-> "none", value |-> PyNone, sent |-> << >>,
                    log |-> "Error fetching data"]
         ELSE [raised |-> "none", value |-> PyNone, sent |-> << >>,
               log |-> "Failed to fetch data"]

-----------------------------------------------------------------------------
(* The process: the loop of lines 310-318 and the statements of main() *)

NoResponse == [exception |-> FALSE, status |-> 0, ok |-> FALSE]

NoCall ==
    [ fn |-> "none", data |-> PyNone, target_date |-> "", matches |-> << >>,
      congrats |-> NoAnnotation, http |-> NoResponse ]

NoRet == [done |-> FALSE, raised |-> "none", value |-> << >>, sent |-> << >>]

\* The instants at which the process may be started: midnight and the last
\* second of each of the first StartDays days after the epoch day.
StartInstants ==
    { d * SecondsPerDay + o : d \in 1..StartDays, o \in {0, SecondsPerDay - 1} }

\* The positions inside main() at which the wall clock may be seen to advance.
InMain == {"yesterday", "today", "compose", "send"}

\* The locals of main() at its entry.
FreshLocals ==
    /\ yesterday' = ""
    /\ congrats_message' = NoAnnotation
    /\ today' = ""
    /\ todays_matches' = << >>
    /\ selected_matches' = << >>
    /\ message' = NoMessage
    /\ sendAttempts' = 0
    /\ sendLog' = "none"
    /\ response' = NoResponse

Init ==
    /\ pc = "yesterday"
    /\ clock \in StartInstants
    /\ sleepFor = 0
    /\ lastOutcome = "none"
    /\ runs = 1
    /\ sleeps = 0
    /\ ticks = 0
    /\ faults = 0
    /\ yesterday = ""
    /\ congrats_message = NoAnnotation
    /\ today = ""
    /\ todays_matches = << >>
    /\ selected_matches = << >>
    /\ message = NoMessage
    /\ sendAttempts = 0
    /\ sendLog = "none"
    /\ response = NoResponse
    /\ call = NoCall
    /\ ret = NoRet

\* main() ends: by returning to line 315, or with an exception that travels to
\* the except clause of line 316.
EndMain(raised) ==
    /\ pc' = IF raised THEN "raised" ELSE "returned"
    /\ lastOutcome' = IF raised THEN "raised" ELSE "returned"

\* Lines 284-286: yesterday's date, yesterday's records, their summary.
CheckYesterday ==
    /\ pc = "yesterday"
    /\ LET y == strftime(minus_one_day(clock))
           f == filter_matches_by_date(json_data, y)
           c == IF f.raised = "none" THEN check_yesterday_results(f.value)
                                     ELSE Raised(f.raised)
       IN  /\ yesterday' = y
           /\ IF c.raised = "none"
              THEN /\ congrats_message' = c.value
                   /\ pc' = "today"
                   /\ UNCHANGED lastOutcome
              ELSE /\ UNCHANGED congrats_message
                   /\ EndMain(TRUE)
    /\ UNCHANGED << clock, sleepFor, runs, sleeps, ticks, faults, today,
                    todays_matches, selected_matches, message, sendAttempts,
                    sendLog, response, call, ret >>

\* Line 289: today's date and today's records.
FilterToday ==
    /\ pc = "today"
    /\ LET d == strftime(clock)
           f == filter_matches_by_date(json_data, d)
       IN  /\ today' = d
           /\ IF f.raised = "none"
              THEN /\ todays_matches' = f.value
                   /\ pc' = "compose"
                   /\ UNCHANGED lastOutcome
              ELSE /\ UNCHANGED todays_matches
                   /\ EndMain(TRUE)
    /\ UNCHANGED << clock, sleepFor, runs, sleeps, ticks, faults, yesterday,
                    congrats_message, selected_matches, message, sendAttempts,
                    sendLog, response, call, ret >>

\* Lines 291-306: the message, around a fresh reading of the date.
Compose ==
    /\ pc = "compose"
    /\ \E made \in compose(congrats_message, todays_matches, strftime(clock)) :
           /\ selected_matches' = made[1]
           /\ message' = made[2]
    /\ pc' = "send"
    /\ UNCHANGED << clock, sleepFor, lastOutcome, runs, sleeps, ticks, faults,
                    yesterday, congrats_message, today, todays_matches,
                    sendAttempts, sendLog, response, call, ret >>

\* Line 307: send_message(message), whatever the messaging endpoint answers.
Send ==
    /\ pc = "send"
    /\ \E http \in HttpOutcomes :
           LET r == send_message(message, http)
           IN  /\ sendAttempts' = sendAttempts + r.posts
               /\ sendLog' = r.log
               /\ response' = http
               /\ EndMain(r.raised /= "none")
    /\ UNCHANGED << clock, sleepFor, runs, sleeps, ticks, faults, yesterday,
                    congrats_message, today, todays_matches, selected_matches,
                    message, call, ret >>

\* An exception raised by a statement of main() outside send_message's try
\* block (lines 283-306) leaves main() and reaches line 316.
MainRaises ==
    /\ pc \in {"yesterday", "today", "compose"}
    /\ faults < MaxFaults
    /\ faults' = faults + 1
    /\ EndMain(TRUE)
    /\ UNCHANGED << clock, sleepFor, runs, sleeps, ticks, yesterday,
                    congrats_message, today, todays_matches, selected_matches,
                    message, sendAttempts, sendLog, response, call, ret >>

after_except_exits == "exited"

\* Where the except clause of lines 316-318 leaves the process: asleep, inside
\* the `while True` loop.
after_except == "idle"

\* Line 315: time.sleep(INTERVAL) after main() returned.
SleepInterval ==
    /\ pc = "returned"
    /\ pc' = "idle"
    /\ sleepFor' = NormalDelay
    /\ sleeps' = sleeps + 1
    /\ UNCHANGED << clock, lastOutcome, runs, ticks, faults, yesterday,
                    congrats_message, today, todays_matches, selected_matches,
                    message, sendAttempts, sendLog, response, call, ret >>

\* Lines 316-318: the exception is logged and time.sleep(60) begins.
HandleException ==
    /\ pc = "raised"
    /\ pc' = after_except
    /\ sleepFor' = RetryDelay
    /\ sleeps' = sleeps + 1
    /\ UNCHANGED << clock, lastOutcome, runs, ticks, faults, yesterday,
                    congrats_message, today, todays_matches, selected_matches,
                    message, sendAttempts, sendLog, response, call, ret >>

\* time.sleep returns after sleepFor seconds and the loop calls main() again
\* (lines 312-314).
Wake ==
    /\ pc = "idle"
    /\ clock + sleepFor <= MaxClock
    /\ clock' = clock + sleepFor
    /\ pc' = "yesterday"
    /\ runs' = runs + 1
    /\ ticks' = 0
    /\ FreshLocals
    /\ UNCHANGED << sleepFor, lastOutcome, sleeps, faults, call, ret >>

\* The wall clock advances while main() runs.
Tick ==
    /\ pc \in InMain
    /\ ticks < MaxTicks
    /\ clock + TickSeconds <= MaxClock
    /\ clock' = clock + TickSeconds
    /\ ticks' = ticks + 1
    /\ UNCHANGED << pc, sleepFor, lastOutcome, runs, sleeps, faults, yesterday,
                    congrats_message, today, todays_matches, selected_matches,
                    message, sendAttempts, sendLog, response, call, ret >>

Next ==
    \/ CheckYesterday
    \/ FilterToday
    \/ Compose
    \/ Send
    \/ MainRaises
    \/ SleepInterval
    \/ HandleException
    \/ Wake
    \/ Tick

Spec == Init /\ [][Next]_vars

\* time.sleep returns: a sleeping process is eventually woken.
FairSpec == Spec /\ WF_vars(Wake)

-----------------------------------------------------------------------------
(* SpecFn: one call of one function on arguments from bounded sets *)

FilterRecords ==
    { [fixture_id |-> "1", m_date |-> "2025-05-15"],
      [fixture_id |-> "2", m_date |-> "2025-05-16"],
      [fixture_id |-> "3"] }

FilterData ==
    { PyNone, PyDict({}, << >>), PyDict({"detail"}, << >>) }
    \cup { PyDict({"server_response"}, s) : s \in SeqsUpTo(FilterRecords, MaxRecs) }

FilterDates == {"2025-05-15", "2025-05-16", "2025-05-17"}

OutcomeRecords == { [outcome |-> o] : o \in {"", "win", "WIN", "lose"} }

Calls ==
    { [NoCall EXCEPT !.fn = "filter_matches_by_date", !.data = d,
                     !.target_date = t] : d \in FilterData, t \in FilterDates }
    \cup { [NoCall EXCEPT !.fn = "check_yesterday_results", !.matches = m]
           : m \in SeqsUpTo(OutcomeRecords, MaxMatches) }
    \cup { [NoCall EXCEPT !.fn = "compose", !.congrats = c,
                          !.matches = SubSeq(JsonServerResponse, 1, n),
                          !.target_date = "2025-05-16"]
           : c \in {NoAnnotation, PerfectDay}, n \in 0..MaxToday }
    \cup { [NoCall EXCEPT !.fn = "fetch_data", !.http = h] : h \in FetchOutcomes }

InitFn ==
    /\ pc = "call"
    /\ clock = 0
    /\ sleepFor = 0
    /\ lastOutcome = "none"
    /\ runs = 0
    /\ sleeps = 0
    /\ ticks = 0
    /\ faults = 0
    /\ yesterday = ""
    /\ congrats_message = NoAnnotation
    /\ today = ""
    /\ todays_matches = << >>
    /\ selected_matches = << >>
    /\ message = NoMessage
    /\ sendAttempts = 0
    /\ sendLog = "none"
    /\ response = NoResponse
    /\ call \in Calls
    /\ ret = NoRet

Result(r, sent) ==
    [done |-> TRUE, raised |-> r.raised, value |-> r.value, sent |-> sent]

ProcessUnchanged ==
    UNCHANGED << pc, clock, sleepFor, lastOutcome, runs, sleeps, ticks, faults,
                 yesterday, congrats_message, today, todays_matches,
                 selected_matches, message, sendAttempts, sendLog, response,
                 call >>

ApplyFilter ==
    /\ call.fn = "filter_matches_by_date"
    /\ ~ret.done
    /\ ret' = Result(filter_matches_by_date(call.data, call.target_date), << >>)
    /\ ProcessUnchanged

ApplySummarize ==
    /\ call.fn = "check_yesterday_results"
    /\ ~ret.done
    /\ ret' = Result(check_yesterday_results(call.matches), << >>)
    /\ ProcessUnchanged

ApplyCompose ==
    /\ call.fn = "compose"
    /\ ~ret.done
    /\ \E made \in compose(call.congrats, call.matches, call.target_date) :
           ret' = Result(Returned([selected |-> made[1], message |-> made[2]]),
                         << >>)
    /\ ProcessUnchanged

ApplyFetch ==
    /\ call.fn = "fetch_data"
    /\ ~ret.done
    /\ LET r == fetch_data(call.http)
       IN  ret' = Result(r, r.sent)
    /\ ProcessUnchanged

NextFn ==
    \/ ApplyFilter
    \/ ApplySummarize
    \/ ApplyCompose
    \/ ApplyFetch

SpecFn == InitFn /\ [][NextFn]_vars

-----------------------------------------------------------------------------
(* Properties of the scheduler loop *)

\* C1: the first run of main() starts at process start with no sleep before
\* it; every later run is preceded by exactly one sleep; and the sleep that
\* follows a run lasts 86400 s if and only if that run returned normally and
\* 60 s if and only if it raised.
C1_SchedulerTransitions ==
    /\ (pc \in InMain \cup {"returned", "raised"} => sleeps = runs - 1)
    /\ (pc = "idle" => sleeps = runs)
    /\ (runs = 1 /\ pc \in InMain => sleeps = 0 /\ sleepFor = 0)
    /\ (pc = "idle" =>
            /\ lastOutcome \in {"returned", "raised"}
            /\ (sleepFor = 86400 <=> lastOutcome = "returned")
            /\ (sleepFor = 60 <=> lastOutcome = "raised"))

\* A second run has raised and the loop is in its 60-second cooldown.
C1_Witness ==
    /\ pc = "idle"
    /\ runs = 2
    /\ lastOutcome = "raised"
    /\ sleepFor = 60

\* C2: the loop has no terminal state (the process is always inside main(),
\* between main() and a sleep, or asleep), and every sleep that ends within the
\* explored days is followed by another run of main(), whatever the outcome of
\* the run before it.
C2_LoopNeverTerminates ==
    /\ [](pc \in InMain \cup {"returned", "raised", "idle"})
    /\ ((pc = "idle" /\ clock + sleepFor <= MaxClock) ~> (pc = "yesterday"))

\* A run of main() has started after a run that raised.
C2_Witness ==
    /\ pc = "yesterday"
    /\ runs >= 2
    /\ lastOutcome = "raised"

\* C5: in every run the send request is made at most once, and a failed send
\* (network exception or non-200 status) lets main() return normally, so the
\* sleep that follows is the 86400-second one.
C5_PublishFailureContained ==
    /\ sendAttempts <= 1
    /\ (sendAttempts = 1 /\ (response.exception \/ response.status /= 200) =>
            /\ pc \in {"returned", "idle"}
            /\ lastOutcome = "returned"
            /\ (pc = "idle" => sleepFor = 86400))

\* The send met a network exception and the loop sleeps for 86400 seconds.
C5_Witness ==
    /\ pc = "idle"
    /\ sendAttempts = 1
    /\ response.exception
    /\ sendLog = "Error sending message"
    /\ sleepFor = 86400

-----------------------------------------------------------------------------
(* Properties of the publisher and of the fetcher *)

ErrorNotice == "error fetching data"

\* C3: when the fetch fails with a transport error, the publisher is invoked
\* exactly once, with the fixed "error fetching data" notice.
C3_FetchErrorPublishesNotice ==
    (call.fn = "fetch_data" /\ ret.done /\ call.http.exception) =>
        ret.sent = << ErrorNotice >>

\* C4: the publisher reports success only when the status is 200 and the
\* response body's "ok" field is true.
C4_SuccessOnlyWhenOk ==
    sendLog = "Message posted successfully" =>
        (~response.exception /\ response.status = 200 /\ response.ok)

-----------------------------------------------------------------------------
(* Properties of the result summarizer *)

Summarized == call.fn = "check_yesterday_results" /\ ret.done

AllWon(matches) ==
    \A i \in 1..Len(matches) : lower(matches[i].outcome) = "win"

\* C6 as stated: only completed records are judged; with no completed record
\* there is no annotation, and with at least one completed record, all of them
\* won, the annotation is "perfect day" however many records are incomplete.
C6_Original ==
    Summarized =>
        LET completed == completed_only(call.matches)
        IN  /\ ret.raised = "none"
            /\ (completed = << >> => ret.value = NoAnnotation)
            /\ (completed /= << >> /\ AllWon(completed) =>
                    ret.value = PerfectDay)

\* C6 amended: every record given is judged, completed or not; with no
\* completed record there is no annotation and no fault, and the annotation is
\* "perfect day" exactly when the set is non-empty and every record in it, the
\* incomplete ones included, has outcome "win" in some casing.
C6_JudgesEveryRecord ==
    Summarized =>
        /\ ret.raised = "none"
        /\ (completed_only(call.matches) = << >> => ret.value = NoAnnotation)
        /\ (ret.value = PerfectDay <=>
                (call.matches /= << >> /\ AllWon(call.matches)))

\* A set with a won record (upper case) and an incomplete record was
\* summarized, and got no annotation.
C6_Witness ==
    /\ Summarized
    /\ \E i \in 1..Len(call.matches) : call.matches[i].outcome = "WIN"
    /\ \E i \in 1..Len(call.matches) : call.matches[i].outcome = ""
    /\ \A i \in 1..Len(call.matches) : call.matches[i].outcome \in {"WIN", ""}
    /\ ret.value = NoAnnotation

\* C7 as stated: when not all completed records won, the annotation is
\* "amazing day" if and only if won / completed >= 0.75.
C7_Original ==
    Summarized =>
        LET completed == completed_only(call.matches)
            won       == won_count(completed)
        IN  (completed /= << >> /\ won < Len(completed)) =>
                (ret.value.kind = "Amazing Day" <=>
                     won * 100 >= 75 * Len(completed))

\* C7 amended: the threshold is 80%, exclusive, over all the records given:
\* when the set is non-empty and not every record won, the annotation is
\* "amazing day" if and only if won / total > 0.80, and it then carries won,
\* total and the percentage to two decimals; 3 of 4 and 4 of 5 get none.
C7_ThresholdAbove80 ==
    Summarized =>
        LET total == Len(call.matches)
            won   == won_count(call.matches)
        IN  /\ (total > 0 /\ won < total =>
                    /\ (ret.value.kind = "Amazing Day" <=> 5 * won > 4 * total)
                    /\ (ret.value.kind /= "Amazing Day" => ret.value = NoAnnotation))
            /\ (ret.value.kind = "Amazing Day" =>
                    /\ ret.value.won = won
                    /\ ret.value.total = total)
            /\ (won = 3 /\ total = 4 => ret.value = NoAnnotation)
            /\ (won = 4 /\ total = 5 => ret.value = NoAnnotation)
            /\ (won = 5 /\ total = 6 => ret.value = AmazingDay(5, 6, 8333))

\* Five of six records won: the "amazing day" annotation, 83.33%.
C7_Witness ==
    /\ Summarized
    /\ Len(call.matches) = 6
    /\ won_count(call.matches) = 5
    /\ ret.value.kind = "Amazing Day"
    /\ ret.value.pct = 8333

-----------------------------------------------------------------------------
(* Properties of the date filter *)

\* C8: the filter never raises and returns exactly the records whose date field
\* equals the target date; data that is None or empty, that lacks the
\* server_response key, or that holds a record without the date field, gives an
\* empty or reduced result.
C8_FilterTotalAndExact ==
    (call.fn = "filter_matches_by_date" /\ ret.done) =>
        LET records ==
                IF call.data.isNone \/ "server_response" \notin call.data.keys
                THEN << >> ELSE call.data.server_response
        IN  /\ ret.raised = "none"
            /\ ret.value = SelectSeq(records,
                   LAMBDA m : "m_date" \in DOMAIN m
                              /\ m.m_date = call.target_date)

-----------------------------------------------------------------------------
(* Properties of the selection and of the message *)

\* C9: with n records dated today the message holds the formatted blocks of
\* exactly min(3, n) of them, taken from n distinct positions of today's list;
\* with n = 0 nothing is formatted and the body is the "no matches scheduled for
\* today (<date>)" notice; the congratulations annotation, when there is one,
\* precedes the body.
C9_SelectsMinThreeDistinct ==
    (call.fn = "compose" /\ ret.done) =>
        LET n   == Len(call.matches)
            k   == IF n < 3 THEN n ELSE 3
            msg == ret.value.message
        IN  /\ Len(msg.blocks) = k
            /\ Len(ret.value.selected) = k
            /\ \E p \in [1..k -> 1..n] :
                   /\ \A i, j \in 1..k : i /= j => p[i] /= p[j]
                   /\ \A i \in 1..k :
                          /\ ret.value.selected[i] = call.matches[p[i]]
                          /\ msg.blocks[i] = format_match(call.matches[p[i]])
            /\ (n = 0 <=> msg.kind = "no_matches")
            /\ (n > 0 <=> msg.kind = "top_matches")
            /\ msg.date = call.target_date
            /\ msg.congrats = call.congrats

\* Five records are dated today and the message holds three blocks.
C9_Witness ==
    /\ call.fn = "compose"
    /\ ret.done
    /\ Len(call.matches) = 5
    /\ Len(ret.value.message.blocks) = 3
    /\ ret.value.message.kind = "top_matches"

\* C10: within one run the date used to filter yesterday's records is the day
\* before the date used to filter today's records, and the date printed in the
\* message is the date used to filter today's records.
C10_DatesAgree ==
    message.kind \in {"no_matches", "top_matches"} =>
        /\ yesterday = DayBefore(today)
        /\ message.date = today

=============================================================================
